---- MODULE Spec2Model ----
(***************************************************************************)
(* voice-interaction-app: the recorder hook (useVoiceRecorder), the API    *)
(* orchestrator (VoiceInteractionAPI) and the component that drives both   *)
(* (VoiceInteractionApp), as one state machine.                            *)
(*                                                                         *)
(* Execution is single-threaded and event-driven: every action below is    *)
(* one JavaScript task (a click handler, a promise continuation or a       *)
(* platform callback) run to its next suspension point.  React state is    *)
(* read as rendered, i.e. handlers see the values set by earlier tasks.    *)
(*                                                                         *)
(* An absent value (null) is the empty tuple <<>> and a present value x is *)
(* <<x>>, so that the two can always be compared.                          *)
(*                                                                         *)
(* The platform is the one the W3C specifications describe: an encoder     *)
(* error is followed by the encoder's stop event; the stop event delivers  *)
(* the last chunk and then runs onstop; decodeAudioData never decodes an   *)
(* artifact of 0 bytes; constructing an AudioContext does not throw.       *)
(* Left out: state that is only displayed (transcribedText, debugInfo,     *)
(* processingStage, isPlayingAudio), a capture track ending by itself,     *)
(* and the settings screen once the credentials were entered.              *)
(***************************************************************************)
EXTENDS Integers, Sequences, FiniteSets, TLC

\* ------------------------------------------------------------------ bounds
\* start() calls in one run (each call is one capture session)
MaxSessions == 2
\* ticks counted by the elapsed-time counter
MaxTime == 2
\* timeslice chunks the encoders deliver in one run
MaxChunks == 1
\* characters in a text returned by a remote service or typed by the user
MaxTextLen == 1
\* candidate replies in one chat-completion response
MaxChoices == 1
\* bytes in a synthesized audio payload
MaxBytes == 1
\* Regenerate Audio clicks in one run
MaxRegens == 1

\* characters by which a sampled reply exceeds the synthesis limit
MaxOver == 2
\* samples per channel of a decoded buffer
MaxSamples == 4
\* channels of a decoded buffer
MaxChannels == 3

None == <<>>
Some(x) == <<x>>

VARIABLES
    \* ---- useVoiceRecorder: React state
    isRecording, isPaused, recordingTime, audioBlob,
    \* ---- useVoiceRecorder: refs
    mediaRecorderRef, streamRef, chunksRef, timerRef,
    \* ---- platform: capability, interval timers, capture sessions
    isSupported, typeSupport, timers, sess, delivered,
    \* ---- VoiceInteractionApp: React state
    showSettings, isProcessing, isGeneratingAudio, responseText, audioResponse, error,
    \* ---- VoiceInteractionAPI singleton: the two credentials
    groqApiKey, elevenLabsApiKey,
    \* ---- the handleProcessAudio invocation in flight (or the last one)
    run,
    \* ---- the Regenerate Audio requests
    regen,
    \* ---- the last failure delivered to the component and not yet cleared
    failure

recVars == <<isRecording, isPaused, recordingTime, audioBlob,
             mediaRecorderRef, streamRef, chunksRef, timerRef,
             isSupported, typeSupport, timers, sess, delivered>>
appVars == <<showSettings, isProcessing, isGeneratingAudio, responseText, audioResponse,
             error, groqApiKey, elevenLabsApiKey, run, regen, failure>>
\* appVars without error and failure
pipeVars == <<showSettings, isProcessing, isGeneratingAudio, responseText, audioResponse,
              groqApiKey, elevenLabsApiKey, run, regen>>
vars == <<recVars, appVars>>

Sessions == 1..MaxSessions

\* delivered: timeslice chunks delivered so far, over all encoders; a chunk
\* is <<s, k>>: the k-th delivered, by session s's encoder (k = 0: the
\* chunk flushed by the stop event).
\*
\* One capture session: the getUserMedia request of one start() call, the
\* stream it was granted, and the encoder opened on that stream.
\*   phase  : "unused" | "awaiting" | "rejected" | "granted"
\*   stream : "none" | "live" | "ended"        (tracks stopped = ended)
\*   enc    : "none" | "recording" | "paused" | "inactive"
\*   ended  : "no" | "stop" | "error"           (what inactivated the encoder)
\*   stopEv : the encoder's stop event is queued and not yet handled
\*   sent   : the non-empty chunks the encoder has delivered, in arrival order
NewSession ==
    [phase |-> "unused", stream |-> "none", enc |-> "none",
     ended |-> "no", stopEv |-> FALSE, sent |-> <<>>]

\* ------------------------------------------------------- capture conditions
\* What getUserMedia / the MediaRecorder constructor reject with.
CaptureErrorNames == {"NotAllowedError", "NotFoundError", "NotSupportedError", "AbortError"}

MsgUnsupportedBrowser == <<"Audio recording is not supported in this browser">>
MsgMicDenied == <<"Microphone access denied. Please allow microphone access and try again.">>
MsgNoMic == <<"No microphone found. Please connect a microphone and try again.">>
MsgNotSupported == <<"Audio recording is not supported in this browser.">>
MsgStartFailed == <<"Failed to start recording. Please check your microphone permissions.">>

\* startRecording's catch: the message of the error it rethrows.
StartErrorMessage(name) ==
    CASE name = "NotAllowedError" -> MsgMicDenied
      [] name = "NotFoundError" -> MsgNoMic
      [] name = "NotSupportedError" -> MsgNotSupported
      [] OTHER -> <<name>>

\* The taxonomy's name for a capture failure.
CaptureCondition(name) ==
    CASE name = "NotAllowedError" -> "PermissionDenied"
      [] name = "NotFoundError" -> "DeviceNotFound"
      [] name = "NotSupportedError" -> "Unsupported"
      [] OTHER -> "Other"

\* handleStartRecording's catch: what the component shows for a start()
\* that threw `thrown`.
HandleStartRecordingCatch(thrown) == MsgStartFailed

\* ------------------------------------------------------------------ timers
\* startTimer: a new interval is scheduled and timerRef points at it; an
\* interval timerRef pointed at before stays scheduled.
StartTimerCount(n) == n + 1

\* stopTimer: clears the interval timerRef points at, if any.
StopTimerCount(ref, n) == IF ref THEN n - 1 ELSE n

\* -------------------------------------------------------------------- text
\* A text is a tuple of characters; " " is the whitespace character.
Chars == {" ", "a"}
Texts == UNION {[1..n -> Chars] : n \in 0..MaxTextLen}

RECURSIVE TrimStart(_)
TrimStart(t) ==
    IF t = <<>> THEN t
    ELSE IF Head(t) = " " THEN TrimStart(Tail(t)) ELSE t

RECURSIVE TrimEnd(_)
TrimEnd(t) ==
    IF t = <<>> THEN t
    ELSE IF t[Len(t)] = " " THEN TrimEnd(SubSeq(t, 1, Len(t) - 1)) ELSE t

\* String.prototype.trim
Trim(t) == TrimEnd(TrimStart(t))

\* The blank check with the trim left out.
IsBlankTextNoTrim(t) == t = <<>>

\* !text || text.trim().length === 0
IsBlankText(t) == t = <<>> \/ Len(Trim(t)) = 0

\* text.substring(0, 2500)
SpeechCharLimit == 2500

\* substring returning the whole text.
SubstringWhole(t, n) == t

Substring(t, n) == SubSeq(t, 1, IF Len(t) < n THEN Len(t) ELSE n)

\* A synthesis request that carries no text.
TtsRequestTextNone(t) == <<>>

TtsRequestText(t) == Substring(t, SpeechCharLimit)

\* ------------------------------------------------------------ remote calls
\* A failed HTTP call as axios reports it: the response status (0: no
\* response arrived), axios's error code, and the service's error message
\* (response.data.error.message) when the body carries one.
HttpFailures ==
    {[status |-> st, code |-> "ERR_BAD_REQUEST", detail |-> None] : st \in {401, 429, 422}}
    \cup {[status |-> 400, code |-> "ERR_BAD_REQUEST", detail |-> d] :
             d \in {None, Some("model decommissioned")}}
    \cup {[status |-> 500, code |-> "ERR_BAD_RESPONSE", detail |-> None],
          [status |-> 0, code |-> "ECONNABORTED", detail |-> None],
          [status |-> 0, code |-> "ERR_NETWORK", detail |-> None]}

\* Errors as thrown inside the orchestrator: an AxiosError for a failed
\* call, a plain Error(message) otherwise.
AxiosError(f) ==
    [axios |-> TRUE, status |-> f.status, code |-> f.code, detail |-> f.detail,
     message |-> <<"Request failed">>]
PlainError(m) ==
    [axios |-> FALSE, status |-> 0, code |-> "", detail |-> None, message |-> m]

MsgGroqKeyMissing == <<"Groq API key is not configured">>
MsgNoSpeech == <<"No speech was detected in the audio. Please try speaking more clearly.">>
MsgNoChoices == <<"No response generated from AI model">>
MsgInvalidGroqKey == <<"Invalid Groq API key. Please check your API key and try again.">>
MsgGroqRateLimit == <<"Rate limit exceeded. Please wait a moment and try again.">>
MsgGroqBadRequest(d) == <<"Groq API Error: ", d>>
MsgGroqTimeout == <<"Request timeout. Please check your internet connection and try again.">>
MsgGroqGeneric == <<"Failed to process audio with Groq API. Please try again.">>

MsgElevenKeyMissing == <<"ElevenLabs API key is not configured">>
MsgNoText == <<"No text provided for speech synthesis">>
MsgEmptyAudio == <<"Empty audio response received">>
MsgInvalidElevenKey == <<"Invalid ElevenLabs API key. Please check your API key and try again.">>
MsgElevenRateLimit == <<"ElevenLabs rate limit exceeded. Please wait a moment and try again.">>
MsgInvalidTtsInput == <<"Invalid text input for speech synthesis.">>
MsgElevenTimeout == <<"ElevenLabs request timeout. Please try again.">>
MsgElevenGeneric == <<"Failed to convert text to speech. Please try again.">>

\* transcribeAndProcess's catch without the ECONNABORTED branch.
TranscribeAndProcessCatchNoTimeout(e) ==
    IF e.axios /\ e.status = 401 THEN MsgInvalidGroqKey
    ELSE IF e.axios /\ e.status = 429 THEN MsgGroqRateLimit
    ELSE IF e.axios /\ e.status = 400
         THEN MsgGroqBadRequest(IF e.detail # None THEN e.detail[1]
                                ELSE "Bad request to Groq API")
    ELSE MsgGroqGeneric

\* transcribeAndProcess's catch: the message of the error it throws for an
\* error e thrown anywhere in its try block.
TranscribeAndProcessCatch(e) ==
    IF e.axios /\ e.status = 401 THEN MsgInvalidGroqKey
    ELSE IF e.axios /\ e.status = 429 THEN MsgGroqRateLimit
    ELSE IF e.axios /\ e.status = 400
         THEN MsgGroqBadRequest(IF e.detail # None THEN e.detail[1]
                                ELSE "Bad request to Groq API")
    ELSE IF e.axios /\ e.code = "ECONNABORTED" THEN MsgGroqTimeout
    ELSE MsgGroqGeneric

\* convertTextToSpeech's catch without the 422 branch.
ConvertTextToSpeechCatchNo422(e) ==
    IF e.axios /\ e.status = 401 THEN MsgInvalidElevenKey
    ELSE IF e.axios /\ e.status = 429 THEN MsgElevenRateLimit
    ELSE IF e.axios /\ e.code = "ECONNABORTED" THEN MsgElevenTimeout
    ELSE MsgElevenGeneric

\* convertTextToSpeech's catch, likewise.
ConvertTextToSpeechCatch(e) ==
    IF e.axios /\ e.status = 401 THEN MsgInvalidElevenKey
    ELSE IF e.axios /\ e.status = 429 THEN MsgElevenRateLimit
    ELSE IF e.axios /\ e.status = 422 THEN MsgInvalidTtsInput
    ELSE IF e.axios /\ e.code = "ECONNABORTED" THEN MsgElevenTimeout
    ELSE MsgElevenGeneric

\* handleProcessAudio's catch: errorMessage for a thrown Error(m).
HandleProcessAudioCatch(m) == m

\* -------------------------------------------------------- format adaptation
BlobSize(b) == Len(b.chunks)

\* audioBufferToWav: the decoded samples in a waveform container.
AudioBufferToWav(b) == [type |-> "audio/wav", chunks |-> b.chunks]

\* The decoded buffers the conversion is followed on field by field:
\* AudioBuffer.length, .sampleRate and .numberOfChannels.
SampleRates == {8000, 16000, 44100, 48000}
AudioBuffers ==
    [length : 0..MaxSamples, sampleRate : SampleRates, numberOfChannels : 1..MaxChannels]

\* DataView.setUint16 stores the value modulo 2^16. setUint32 stores it
\* modulo 2^32, which keeps every value below 2^31 (a buffer of less than
\* 2^30 samples at a rate below 2^30) as it is.
Uint16(n) == n % 65536
Uint32(n) == n

\* audioBufferToWav, field by field: the ArrayBuffer's size, the header
\* fields in the order they are written, and the number of 16-bit samples
\* the loop writes, all of them read from getChannelData(0).
WavContainer(buffer) ==
    LET length == buffer.length
        sampleRate == buffer.sampleRate
        channels == buffer.numberOfChannels
    IN [byteLength    |-> 44 + length * 2,
        riffSize      |-> Uint32(36 + length * 2),
        fmtSize       |-> Uint32(16),
        audioFormat   |-> Uint16(1),
        numChannels   |-> Uint16(channels),
        sampleRate    |-> Uint32(sampleRate),
        byteRate      |-> Uint32(sampleRate * 2),
        blockAlign    |-> Uint16(2),
        bitsPerSample |-> Uint16(16),
        dataSize      |-> Uint32(length * 2),
        samples       |-> length,
        fromChannels  |-> {0},
        type          |-> "audio/wav"]

\* convertBlobToWav with the catch resolving a (headers-only) waveform
\* container instead of the artifact.
ConvertBlobToWavNoFallback(b, decoded) == AudioBufferToWav(b)

\* convertBlobToWav once the artifact was read: the value its promise
\* resolves with, for a decode that succeeded or was rejected.
ConvertBlobToWavResult(b, decoded) == IF decoded THEN AudioBufferToWav(b) ELSE b

\* convertTextToSpeech's result for a response body of n bytes:
\* new Blob([response.data], { type: 'audio/mpeg' }) and its object URL; `by`
\* names the request (0: the pipeline's, r: the r-th Regenerate Audio).
PlayableResourceNoBody(n, by) == [bytes |-> 0, by |-> by]

PlayableResource(n, by) == [bytes |-> n, by |-> by]

\* --------------------------------------------------------- media-type list
MimePreference == <<"audio/webm;codecs=opus", "audio/webm", "audio/mp4">>

\* The negotiation trying the list from its last entry.
NegotiateMimeTypeReversed(supported) ==
    IF MimePreference[3] \in supported THEN MimePreference[3]
    ELSE IF MimePreference[2] \in supported THEN MimePreference[2]
    ELSE IF MimePreference[1] \in supported THEN MimePreference[1]
    ELSE ""

\* startRecording's negotiation: the first supported entry, "" when none is.
NegotiateMimeType(supported) ==
    IF MimePreference[1] \in supported THEN MimePreference[1]
    ELSE IF MimePreference[2] \in supported THEN MimePreference[2]
    ELSE IF MimePreference[3] \in supported THEN MimePreference[3]
    ELSE ""

\* onstop: mimeType || 'audio/webm'
MimeTypeForBlob(mimeType) == IF mimeType # "" THEN mimeType ELSE "audio/webm"

\* --------------------------------------------------------------- the run
\* One handleProcessAudio invocation.
\*   pc      : "idle" | "read" | "decode" | "stalled" | "stt" | "chat" | "tts" | "ended"
\*   blob    : the artifact the handler captured
\*   decoded : "" | "ok" | "fail"
\*   calls   : the remote calls issued so far, in order, each with the value
\*             the stage was given (arg) and what the request carries (payload)
\*   sttText : the text the transcription call returned
\*   ttsSize : the size of the body the synthesis call returned
\*   reset   : Start New Conversation was clicked since the invocation started
\*   buffer  : the AudioBuffer decodeAudioData resolved with, where the
\*             conversion is followed field by field (WavSpec)
\*   wav     : the container audioBufferToWav built from it
\*   ttsAfter: the Regenerate Audio requests that had been issued when the
\*             invocation issued its synthesis call
NewRun ==
    [pc |-> "idle", blob |-> None, decoded |-> "", calls |-> <<>>, sttText |-> None,
     ttsSize |-> None, reset |-> FALSE, buffer |-> None, wav |-> None, ttsAfter |-> {}]

Regens == 1..MaxRegens
\*   state : "unused" | "inflight" | "done";  text : the text of the request in flight
NewRegen == [state |-> "unused", text |-> <<>>]

\* ------------------------------------------------------------------- Init
Init ==
    /\ isRecording = FALSE
    /\ isPaused = FALSE
    /\ recordingTime = 0
    /\ audioBlob = None
    /\ mediaRecorderRef = 0
    /\ streamRef = 0
    /\ chunksRef = <<>>
    /\ timerRef = FALSE
    /\ isSupported \in BOOLEAN
    /\ typeSupport \in IF isSupported THEN SUBSET {MimePreference[i] : i \in 1..3} ELSE {{}}
    /\ timers = 0
    /\ sess = [s \in Sessions |-> NewSession]
    /\ delivered = 0
    /\ showSettings = TRUE
    /\ isProcessing = FALSE
    /\ isGeneratingAudio = FALSE
    /\ responseText = <<>>
    /\ audioResponse = None
    /\ error = None
    /\ groqApiKey = FALSE
    /\ elevenLabsApiKey = FALSE
    /\ run = NewRun
    /\ regen = [r \in Regens |-> NewRegen]
    /\ failure = None

\* ----------------------------------------------------------------- helpers
UnusedSessions == {s \in Sessions : sess[s].phase = "unused"}
NextSession == CHOOSE s \in UnusedSessions : \A t \in UnusedSessions : s <= t

\* Capture streams acquired and not released.
LiveStreams == {s \in Sessions : sess[s].stream = "live"}
Acquired == Cardinality(LiveStreams)

\* ------------------------------------------------- handleStartRecording
\* The Start Recording button (rendered while !isRecording): setError(null),
\* then startRecording() up to its first suspension point.
HandleStartRecording ==
    /\ ~showSettings
    /\ ~isRecording
    /\ UnusedSessions # {}
    /\ IF ~isSupported
       THEN /\ error' = Some(HandleStartRecordingCatch(MsgUnsupportedBrowser))
            /\ failure' = Some([path |-> "start", cond |-> "Unsupported",
                                  msg |-> MsgUnsupportedBrowser])
            /\ sess' = [sess EXCEPT ![NextSession].phase = "rejected"]
       ELSE /\ error' = None
            /\ failure' = None
            /\ sess' = [sess EXCEPT ![NextSession].phase = "awaiting"]
    /\ UNCHANGED <<isRecording, isPaused, recordingTime, audioBlob,
                   mediaRecorderRef, streamRef, chunksRef, timerRef,
                   isSupported, typeSupport, timers, delivered, pipeVars>>

\* getUserMedia rejects: startRecording's catch rethrows, and
\* handleStartRecording's catch sets the error.
GetUserMediaReject(s, name) ==
    /\ sess[s].phase = "awaiting"
    /\ sess' = [sess EXCEPT ![s].phase = "rejected"]
    /\ error' = Some(HandleStartRecordingCatch(StartErrorMessage(name)))
    /\ failure' = Some([path |-> "start", cond |-> CaptureCondition(name),
                        msg |-> StartErrorMessage(name)])
    /\ UNCHANGED <<isRecording, isPaused, recordingTime, audioBlob,
                   mediaRecorderRef, streamRef, chunksRef, timerRef,
                   isSupported, typeSupport, timers, delivered, pipeVars>>

\* getUserMedia resolves with a stream: the rest of startRecording's try
\* block.  ctorOk = FALSE: new MediaRecorder(...) throws NotSupportedError.
GetUserMediaResolve(s, ctorOk) ==
    /\ sess[s].phase = "awaiting"
    /\ streamRef' = s
    /\ chunksRef' = <<>>
    /\ IF ctorOk
       THEN /\ mediaRecorderRef' = s
            /\ sess' = [sess EXCEPT ![s].phase = "granted", ![s].stream = "live",
                                    ![s].enc = "recording"]
            /\ isRecording' = TRUE
            /\ recordingTime' = 0
            /\ timers' = StartTimerCount(timers)
            /\ timerRef' = TRUE
            /\ UNCHANGED <<error, failure>>
       ELSE /\ sess' = [sess EXCEPT ![s].phase = "granted", ![s].stream = "live"]
            /\ error' = Some(HandleStartRecordingCatch(StartErrorMessage("NotSupportedError")))
            /\ failure' = Some([path |-> "start", cond |-> "Unsupported",
                                  msg |-> MsgNotSupported])
            /\ UNCHANGED <<mediaRecorderRef, isRecording, recordingTime, timers, timerRef>>
    /\ UNCHANGED <<isPaused, audioBlob, isSupported, typeSupport, delivered, pipeVars>>

\* ---------------------------------------------------------- stopRecording
StopRecording ==
    /\ ~showSettings
    /\ IF mediaRecorderRef # 0 /\ isRecording
            /\ sess[mediaRecorderRef].enc \in {"recording", "paused"}
       THEN /\ sess' = [sess EXCEPT ![mediaRecorderRef].enc = "inactive",
                                    ![mediaRecorderRef].ended = "stop",
                                    ![mediaRecorderRef].stopEv = TRUE]
            /\ isRecording' = FALSE
            /\ isPaused' = FALSE
            /\ timers' = StopTimerCount(timerRef, timers)
            /\ timerRef' = FALSE
       ELSE UNCHANGED <<sess, isRecording, isPaused, timers, timerRef>>
    /\ UNCHANGED <<recordingTime, audioBlob, mediaRecorderRef, streamRef,
                   chunksRef, isSupported, typeSupport, delivered, appVars>>

\* --------------------------------------------------------- pauseRecording
PauseRecording ==
    /\ ~showSettings
    /\ IF mediaRecorderRef # 0 /\ isRecording /\ ~isPaused
            /\ sess[mediaRecorderRef].enc = "recording"
       THEN /\ sess' = [sess EXCEPT ![mediaRecorderRef].enc = "paused"]
            /\ isPaused' = TRUE
            /\ timers' = StopTimerCount(timerRef, timers)
            /\ timerRef' = FALSE
       ELSE UNCHANGED <<sess, isPaused, timers, timerRef>>
    /\ UNCHANGED <<isRecording, recordingTime, audioBlob, mediaRecorderRef,
                   streamRef, chunksRef, isSupported, typeSupport, delivered, appVars>>

\* -------------------------------------------------------- resumeRecording
ResumeRecording ==
    /\ ~showSettings
    /\ IF mediaRecorderRef # 0 /\ isRecording /\ isPaused
            /\ sess[mediaRecorderRef].enc = "paused"
       THEN /\ sess' = [sess EXCEPT ![mediaRecorderRef].enc = "recording"]
            /\ isPaused' = FALSE
            /\ timers' = StartTimerCount(timers)
            /\ timerRef' = TRUE
       ELSE UNCHANGED <<sess, isPaused, timers, timerRef>>
    /\ UNCHANGED <<isRecording, recordingTime, audioBlob, mediaRecorderRef,
                   streamRef, chunksRef, isSupported, typeSupport, delivered, appVars>>

\* --------------------------------------------------------- clearRecording
ClearRecordingEffect ==
    /\ audioBlob' = None
    /\ recordingTime' = 0
    /\ chunksRef' = <<>>
    /\ UNCHANGED <<isRecording, isPaused, mediaRecorderRef, streamRef,
                   timerRef, isSupported, typeSupport, timers, sess, delivered>>

\* The Clear button (rendered while audioBlob && !isRecording).
ClearRecording ==
    /\ ~showSettings
    /\ audioBlob # None
    /\ ~isRecording
    /\ ClearRecordingEffect
    /\ UNCHANGED appVars

\* ------------------------------------------------------ platform callbacks
\* One interval callback: setRecordingTime(prev => prev + 1).
Tick ==
    /\ timers > 0
    /\ recordingTime < MaxTime
    /\ recordingTime' = recordingTime + 1
    /\ UNCHANGED <<isRecording, isPaused, audioBlob, mediaRecorderRef, streamRef,
                   chunksRef, timerRef, isSupported, typeSupport, timers, sess, delivered, appVars>>

\* ondataavailable for a timeslice of a recording encoder; an empty chunk
\* (size 0) is dropped.
DataAvailable(s, size) ==
    /\ sess[s].enc = "recording"
    /\ delivered < MaxChunks
    /\ delivered' = delivered + 1
    /\ chunksRef' = IF size > 0 THEN Append(chunksRef, <<s, delivered + 1>>)
                    ELSE chunksRef
    /\ sess' = IF size > 0 THEN [sess EXCEPT ![s].sent = Append(@, <<s, delivered + 1>>)]
                ELSE sess
    /\ UNCHANGED <<isRecording, isPaused, recordingTime, audioBlob, mediaRecorderRef,
                   streamRef, timerRef, isSupported, typeSupport, timers, appVars>>

\* The encoder's stop event: the final dataavailable (size 0: nothing left
\* to flush), then onstop.
OnStop(s, size) ==
    /\ sess[s].stopEv
    /\ LET chunks == IF size > 0 THEN Append(chunksRef, <<s, 0>>) ELSE chunksRef
       IN /\ chunksRef' = chunks
          /\ audioBlob' = Some([type |-> MimeTypeForBlob(NegotiateMimeType(typeSupport)), chunks |-> chunks])
    /\ sess' = [t \in Sessions |->
                  [sess[t] EXCEPT
                     !.stopEv = IF t = s THEN FALSE ELSE @,
                     !.sent = IF t = s /\ size > 0 THEN Append(@, <<s, 0>>) ELSE @,
                     !.stream = IF t = streamRef THEN "ended" ELSE @]]
    /\ streamRef' = 0
    /\ UNCHANGED <<isRecording, isPaused, recordingTime, mediaRecorderRef,
                   timerRef, isSupported, typeSupport, timers, delivered, appVars>>

\* The encoder reports an error: it becomes inactive, onerror runs, and the
\* platform then fires the stop event.
OnError(s) ==
    /\ sess[s].enc \in {"recording", "paused"}
    /\ sess' = [sess EXCEPT ![s].enc = "inactive", ![s].ended = "error",
                            ![s].stopEv = TRUE]
    /\ isRecording' = FALSE
    /\ isPaused' = FALSE
    /\ timers' = StopTimerCount(timerRef, timers)
    /\ timerRef' = FALSE
    /\ UNCHANGED <<recordingTime, audioBlob, mediaRecorderRef, streamRef,
                   chunksRef, isSupported, typeSupport, delivered, appVars>>

\* ------------------------------------------------------------- settings
\* Both credentials are entered on the settings screen: the effect calls
\* api.setApiKeys and the main screen is rendered from then on.
ApiKeysEntered ==
    /\ showSettings
    /\ showSettings' = FALSE
    /\ groqApiKey' = TRUE
    /\ elevenLabsApiKey' = TRUE
    /\ UNCHANGED <<recVars, isProcessing, isGeneratingAudio, responseText,
                   audioResponse, error, run, regen, failure>>

\* ------------------------------------------------------ handleProcessAudio
\* The invocation ends by an error thrown to handleProcessAudio's catch,
\* then its finally block.
RunFails(r, cond, m) ==
    /\ error' = Some(HandleProcessAudioCatch(m))
    /\ failure' = Some([path |-> "pipeline", cond |-> cond, msg |-> m])
    /\ isProcessing' = FALSE
    /\ isGeneratingAudio' = FALSE
    /\ run' = [r EXCEPT !.pc = "ended"]

\* The Process Audio button (rendered while audioBlob && !isRecording,
\* disabled while isProcessing || isGeneratingAudio), up to the first
\* suspension point: reader.readAsArrayBuffer in convertBlobToWav.
HandleProcessAudio ==
    /\ ~showSettings
    /\ audioBlob # None
    /\ ~isRecording
    /\ ~isProcessing /\ ~isGeneratingAudio
    /\ responseText' = <<>>
    /\ audioResponse' = None
    /\ IF ~groqApiKey
       THEN RunFails([NewRun EXCEPT !.blob = audioBlob], "NotConfigured", MsgGroqKeyMissing)
       ELSE /\ isProcessing' = TRUE
            /\ error' = None
            /\ failure' = None
            /\ run' = [NewRun EXCEPT !.pc = "read", !.blob = audioBlob]
            /\ UNCHANGED isGeneratingAudio
    /\ UNCHANGED <<recVars, showSettings, groqApiKey, elevenLabsApiKey, regen>>

\* reader.onload fires: decodeAudioData is started.
ReaderOnLoad ==
    /\ run.pc = "read"
    /\ run' = [run EXCEPT !.pc = "decode"]
    /\ UNCHANGED <<recVars, showSettings, isProcessing, isGeneratingAudio, responseText,
                   audioResponse, error, groqApiKey, elevenLabsApiKey, regen, failure>>

\* The read fails: the reader has no error handler, so the promise of
\* convertBlobToWav is never settled.
ReaderOnError ==
    /\ run.pc = "read"
    /\ run' = [run EXCEPT !.pc = "stalled"]
    /\ UNCHANGED <<recVars, showSettings, isProcessing, isGeneratingAudio, responseText,
                   audioResponse, error, groqApiKey, elevenLabsApiKey, regen, failure>>

\* decodeAudioData settles (an artifact of 0 bytes is never decoded); the
\* transcription request is sent with what convertBlobToWav resolved with.
DecodeSettles(decoded) ==
    /\ run.pc = "decode"
    /\ decoded => BlobSize(run.blob[1]) > 0
    /\ LET file == ConvertBlobToWavResult(run.blob[1], decoded)
       IN run' = [run EXCEPT !.pc = "stt",
                             !.decoded = IF decoded THEN "ok" ELSE "fail",
                             !.calls = Append(@, [ep |-> "stt", arg |-> run.blob[1],
                                                  payload |-> file])]
    /\ UNCHANGED <<recVars, showSettings, isProcessing, isGeneratingAudio, responseText,
                   audioResponse, error, groqApiKey, elevenLabsApiKey, regen, failure>>

\* The stages in the order the awaits chain them, with the transcription
\* and the synthesis exchanged.
StageAfterSwapped(stage) == IF stage = "stt" THEN "tts" ELSE "chat"

\* The call awaited next once the call of `stage` has returned: chat
\* completion after transcription, synthesis after chat completion.
StageAfter(stage) == IF stage = "stt" THEN "chat" ELSE "tts"

\* The taxonomy's name for a failed call of a stage.
ApiCondition(stage, f) ==
    CASE f.status = 401 -> "InvalidCredentials"
      [] f.status = 429 -> "RateLimited"
      [] f.status = 400 /\ stage \in {"stt", "chat"} -> "BadRequest"
      [] f.status = 422 /\ stage = "tts" -> "UnprocessableInput"
      [] f.code = "ECONNABORTED" -> "Timeout"
      [] OTHER -> "GenericFailure"

\* The transcription or the chat-completion call fails.
GroqCallFails(f) ==
    /\ run.pc \in {"stt", "chat"}
    /\ RunFails(run, ApiCondition(run.pc, f), TranscribeAndProcessCatch(AxiosError(f)))
    /\ UNCHANGED <<recVars, showSettings, responseText, audioResponse,
                   groqApiKey, elevenLabsApiKey, regen>>

\* The transcription call returns text.
TranscriptionReturns(text) ==
    /\ run.pc = "stt"
    /\ IF IsBlankText(text)
       THEN /\ RunFails([run EXCEPT !.sttText = Some(text)], "EmptySpeech",
                        TranscribeAndProcessCatch(PlainError(MsgNoSpeech)))
       ELSE /\ run' = [run EXCEPT !.pc = StageAfter("stt"), !.sttText = Some(text),
                                  !.calls = Append(@, [ep |-> StageAfter("stt"), arg |-> text,
                                                       payload |-> text])]
            /\ UNCHANGED <<isProcessing, isGeneratingAudio, error, failure>>
    /\ UNCHANGED <<recVars, showSettings, responseText, audioResponse,
                   groqApiKey, elevenLabsApiKey, regen>>

\* Chat-completion responses: choices missing (None) or a list of contents.
ChoiceLists == UNION {[1..n -> Texts] : n \in 0..MaxChoices}

\* The chat-completion call returns; with a reply, handleProcessAudio goes
\* on to convertTextToSpeech up to its request.
ChatReturns(choices) ==
    /\ run.pc = "chat"
    /\ IF choices = None \/ Len(choices[1]) = 0
       THEN /\ RunFails(run, "MissingChoices",
                        TranscribeAndProcessCatch(PlainError(MsgNoChoices)))
            /\ UNCHANGED responseText
       ELSE LET text == choices[1][1] IN
            /\ responseText' = text
            /\ IF ~elevenLabsApiKey
               THEN RunFails(run, "NotConfigured", MsgElevenKeyMissing)
               ELSE IF IsBlankText(text)
               THEN RunFails(run, "NoText", MsgNoText)
               ELSE /\ run' = [run EXCEPT !.pc = StageAfter("chat"),
                                  !.calls = Append(@, [ep |-> StageAfter("chat"), arg |-> text,
                                                       payload |-> TtsRequestText(text)]),
                                  !.ttsAfter = {r \in Regens : regen[r].state # "unused"}]
                    /\ isGeneratingAudio' = TRUE
                    /\ UNCHANGED <<isProcessing, error, failure>>
    /\ UNCHANGED <<recVars, showSettings, audioResponse, groqApiKey, elevenLabsApiKey,
                   regen>>

\* The pipeline's synthesis call fails.
SynthesisFails(f) ==
    /\ run.pc = "tts"
    /\ RunFails(run, ApiCondition("tts", f), ConvertTextToSpeechCatch(AxiosError(f)))
    /\ UNCHANGED <<recVars, showSettings, responseText, audioResponse,
                   groqApiKey, elevenLabsApiKey, regen>>

\* The pipeline's synthesis call returns n bytes.
SynthesisReturns(n) ==
    /\ run.pc = "tts"
    /\ IF n = 0
       THEN /\ RunFails([run EXCEPT !.ttsSize = Some(n)], "EmptyAudio",
                        ConvertTextToSpeechCatch(PlainError(MsgEmptyAudio)))
            /\ UNCHANGED audioResponse
       ELSE /\ audioResponse' = Some(PlayableResource(n, 0))
            /\ isProcessing' = FALSE
            /\ isGeneratingAudio' = FALSE
            /\ run' = [run EXCEPT !.pc = "ended", !.ttsSize = Some(n)]
            /\ UNCHANGED <<error, failure>>
    /\ UNCHANGED <<recVars, showSettings, responseText, groqApiKey, elevenLabsApiKey, regen>>

\* ------------------------------------------------------- Regenerate Audio
UnusedRegens == {r \in Regens : regen[r].state = "unused"}
NextRegen == CHOOSE r \in UnusedRegens : \A q \in UnusedRegens : r <= q

\* A rejection of convertTextToSpeech(responseText).then(setAudioResponse):
\* nothing handles it.
RegenRejected(cond, m) ==
    /\ failure' = Some([path |-> "regen", cond |-> cond, msg |-> m])
    /\ UNCHANGED <<error, audioResponse>>

\* The Regenerate Audio button (rendered while responseText is non-empty,
\* disabled while isGeneratingAudio).
RegenerateAudio ==
    /\ ~showSettings
    /\ responseText # <<>>
    /\ ~isGeneratingAudio
    /\ UnusedRegens # {}
    /\ IF ~elevenLabsApiKey
       THEN /\ RegenRejected("NotConfigured", MsgElevenKeyMissing)
            /\ regen' = [regen EXCEPT ![NextRegen].state = "done"]
       ELSE IF IsBlankText(responseText)
       THEN /\ RegenRejected("NoText", MsgNoText)
            /\ regen' = [regen EXCEPT ![NextRegen].state = "done"]
       ELSE /\ regen' = [regen EXCEPT ![NextRegen] =
                            [state |-> "inflight", text |-> TtsRequestText(responseText)]]
            /\ UNCHANGED <<error, audioResponse, failure>>
    /\ UNCHANGED <<recVars, showSettings, isProcessing, isGeneratingAudio, responseText,
                   groqApiKey, elevenLabsApiKey, run>>

RegenFails(r, f) ==
    /\ regen[r].state = "inflight"
    /\ regen' = [regen EXCEPT ![r] = [state |-> "done", text |-> <<>>]]
    /\ RegenRejected(ApiCondition("tts", f), ConvertTextToSpeechCatch(AxiosError(f)))
    /\ UNCHANGED <<recVars, showSettings, isProcessing, isGeneratingAudio, responseText,
                   groqApiKey, elevenLabsApiKey, run>>

RegenReturns(r, n) ==
    /\ regen[r].state = "inflight"
    /\ IF n = 0
       THEN /\ regen' = [regen EXCEPT ![r] = [state |-> "done", text |-> <<>>]]
            /\ RegenRejected("EmptyAudio", ConvertTextToSpeechCatch(PlainError(MsgEmptyAudio)))
       ELSE /\ regen' = [regen EXCEPT ![r] = [state |-> "done", text |-> <<>>]]
            /\ audioResponse' = Some(PlayableResource(n, r))
            /\ UNCHANGED <<error, failure>>
    /\ UNCHANGED <<recVars, showSettings, isProcessing, isGeneratingAudio, responseText,
                   groqApiKey, elevenLabsApiKey, run>>

\* The reply textarea's onChange.
EditReply(t) ==
    /\ ~showSettings
    /\ responseText # <<>>
    /\ t # responseText
    /\ responseText' = t
    /\ UNCHANGED <<recVars, showSettings, isProcessing, isGeneratingAudio, audioResponse,
                   error, groqApiKey, elevenLabsApiKey, run, regen, failure>>

\* ------------------------------------------------------------ handleReset
\* The Start New Conversation button (rendered while
\* audioBlob || responseText || audioResponse).
HandleReset ==
    /\ ~showSettings
    /\ audioBlob # None \/ responseText # <<>> \/ audioResponse # None
    /\ ClearRecordingEffect
    /\ responseText' = <<>>
    /\ audioResponse' = None
    /\ error' = None
    /\ failure' = None
    /\ run' = [run EXCEPT !.reset = TRUE]
    /\ UNCHANGED <<showSettings, isProcessing, isGeneratingAudio, groqApiKey,
                   elevenLabsApiKey, regen>>

\* ------------------------------------------------------------------- Next
\* The recorder and what the component does with it.
RecorderNext ==
    \/ ApiKeysEntered
    \/ HandleStartRecording
    \/ \E s \in Sessions, name \in CaptureErrorNames : GetUserMediaReject(s, name)
    \/ \E s \in Sessions, ctorOk \in BOOLEAN : GetUserMediaResolve(s, ctorOk)
    \/ StopRecording
    \/ PauseRecording
    \/ ResumeRecording
    \/ ClearRecording
    \/ HandleReset
    \/ Tick
    \/ \E s \in Sessions, size \in {0, 1} : DataAvailable(s, size)
    \/ \E s \in Sessions, size \in {0, 1} : OnStop(s, size)
    \/ \E s \in Sessions : OnError(s)

\* Process Audio: one pipeline invocation after another.
ProcessAudioNext ==
    \/ HandleProcessAudio
    \/ ReaderOnLoad
    \/ ReaderOnError
    \/ \E decoded \in BOOLEAN : DecodeSettles(decoded)
    \/ \E f \in HttpFailures : GroqCallFails(f)
    \/ \E text \in Texts : TranscriptionReturns(text)
    \/ \E choices \in {None} \cup {Some(c) : c \in ChoiceLists} : ChatReturns(choices)
    \/ \E f \in HttpFailures : SynthesisFails(f)
    \/ \E n \in 0..MaxBytes : SynthesisReturns(n)
    \/ ClearRecording
    \/ HandleReset

\* The callbacks that continue an invocation: the reader's load or error
\* event, the settling of decodeAudioData, and the settling of each request
\* (axios rejects a request that got no response within its 30 s timeout).
RunContinues ==
    \/ ReaderOnLoad
    \/ ReaderOnError
    \/ \E decoded \in BOOLEAN : DecodeSettles(decoded)
    \/ \E f \in HttpFailures : GroqCallFails(f)
    \/ \E text \in Texts : TranscriptionReturns(text)
    \/ \E choices \in {None} \cup {Some(c) : c \in ChoiceLists} : ChatReturns(choices)
    \/ \E f \in HttpFailures : SynthesisFails(f)
    \/ \E n \in 0..MaxBytes : SynthesisReturns(n)

\* The reply edited and stage 3 re-run.
ResynthesisNext ==
    \/ RegenerateAudio
    \/ \E r \in Regens, f \in HttpFailures : RegenFails(r, f)
    \/ \E r \in Regens, n \in 0..MaxBytes : RegenReturns(r, n)
    \/ \E t \in Texts : EditReply(t)

PipelineNext == ProcessAudioNext \/ ResynthesisNext

Next == RecorderNext \/ PipelineNext

\* The whole application.
Spec == Init /\ [][Next]_vars

\* The recorder alone: the user never starts the pipeline.
RecorderSpec == Init /\ [][RecorderNext]_vars

\* Sessions recorded and stopped, one after another or overlapping, and
\* cleared: the user does not pause, no encoder fails, and the elapsed-time
\* callbacks (which no other step reads) are left out.
CaptureNext ==
    \/ ApiKeysEntered
    \/ HandleStartRecording
    \/ \E s \in Sessions : GetUserMediaResolve(s, TRUE)
    \/ StopRecording
    \/ \E s \in Sessions, size \in {0, 1} : DataAvailable(s, size)
    \/ \E s \in Sessions, size \in {0, 1} : OnStop(s, size)
    \/ ClearRecording

CaptureSpec == Init /\ [][CaptureNext]_vars

\* The pipeline, from the states the recorder leaves after one session was
\* recorded and stopped (with no chunk, or with one): the user does not
\* record again.  No pipeline action reads the recorder's state apart from
\* audioBlob and isRecording.
PipelineInit ==
    /\ isRecording = FALSE
    /\ isPaused = FALSE
    /\ recordingTime = 0
    /\ chunksRef \in {<<>>, << <<1, 1>> >>}
    /\ audioBlob = Some([type |-> MimePreference[1], chunks |-> chunksRef])
    /\ mediaRecorderRef = 1
    /\ streamRef = 0
    /\ timerRef = FALSE
    /\ isSupported = TRUE
    /\ typeSupport = {MimePreference[i] : i \in 1..3}
    /\ timers = 0
    /\ sess = [s \in Sessions |->
                 IF s = 1
                 THEN [phase |-> "granted", stream |-> "ended", enc |-> "inactive",
                       ended |-> "stop", stopEv |-> FALSE, sent |-> chunksRef]
                 ELSE NewSession]
    /\ delivered = Len(chunksRef)
    /\ showSettings = FALSE
    /\ isProcessing = FALSE
    /\ isGeneratingAudio = FALSE
    /\ responseText = <<>>
    /\ audioResponse = None
    /\ error = None
    /\ groqApiKey = TRUE
    /\ elevenLabsApiKey = TRUE
    /\ run = NewRun
    /\ regen = [r \in Regens |-> NewRegen]
    /\ failure = None

\* audioBufferToWav is called with the buffer decodeAudioData resolved with.
AudioBufferToWavCall ==
    /\ run.pc = "decode"
    /\ run.buffer # None
    /\ run.wav = None
    /\ run' = [run EXCEPT !.wav = Some(WavContainer(run.buffer[1]))]
    /\ UNCHANGED <<recVars, showSettings, isProcessing, isGeneratingAudio, responseText,
                   audioResponse, error, groqApiKey, elevenLabsApiKey, regen, failure>>

\* An invocation whose artifact was read and decoded, for every decoded
\* buffer of AudioBuffers.
WavInit ==
    /\ isRecording = FALSE
    /\ isPaused = FALSE
    /\ recordingTime = 0
    /\ chunksRef = << <<1, 1>> >>
    /\ audioBlob = Some([type |-> MimePreference[1], chunks |-> chunksRef])
    /\ mediaRecorderRef = 1
    /\ streamRef = 0
    /\ timerRef = FALSE
    /\ isSupported = TRUE
    /\ typeSupport = {MimePreference[i] : i \in 1..3}
    /\ timers = 0
    /\ sess = [s \in Sessions |->
                 IF s = 1
                 THEN [phase |-> "granted", stream |-> "ended", enc |-> "inactive",
                       ended |-> "stop", stopEv |-> FALSE, sent |-> chunksRef]
                 ELSE NewSession]
    /\ delivered = Len(chunksRef)
    /\ showSettings = FALSE
    /\ isProcessing = TRUE
    /\ isGeneratingAudio = FALSE
    /\ responseText = <<>>
    /\ audioResponse = None
    /\ error = None
    /\ groqApiKey = TRUE
    /\ elevenLabsApiKey = TRUE
    /\ \E b \in AudioBuffers :
          run = [NewRun EXCEPT !.pc = "decode", !.blob = audioBlob, !.buffer = Some(b)]
    /\ regen = [r \in Regens |-> NewRegen]
    /\ failure = None

WavNext == AudioBufferToWavCall

WavSpec == WavInit /\ [][WavNext]_vars

\* Process Audio, Clear and Start New Conversation only.
ProcessAudioSpec == PipelineInit /\ [][ProcessAudioNext]_vars

\* The same, with the event loop running every callback that is due: a
\* pending read, decode or request does not stay pending forever.  The
\* user's clicks are under no such obligation.
ProcessAudioFairSpec == ProcessAudioSpec /\ WF_vars(RunContinues)

\* The same with Regenerate Audio and the reply textarea.
PipelineSpec == PipelineInit /\ [][PipelineNext]_vars

\* Replies around the synthesis limit: of 1 or about SpeechCharLimit
\* characters, with whitespace at some of the marked positions.
ReplyLengths == {1} \cup ((SpeechCharLimit - 1)..(SpeechCharLimit + MaxOver))
ReplyMarks == {1, SpeechCharLimit + 1}
SampleReplies ==
    {t \in {[i \in 1..n |-> IF i \in m THEN " " ELSE "a"] :
                 n \in ReplyLengths, m \in SUBSET ReplyMarks} : ~IsBlankText(t)}

\* The application after one recorded session and one successful pipeline
\* invocation whose reply was one of SampleReplies.
ReplyShownInit ==
    /\ isRecording = FALSE
    /\ isPaused = FALSE
    /\ recordingTime = 0
    /\ chunksRef = << <<1, 1>> >>
    /\ audioBlob = Some([type |-> MimePreference[1], chunks |-> chunksRef])
    /\ mediaRecorderRef = 1
    /\ streamRef = 0
    /\ timerRef = FALSE
    /\ isSupported = TRUE
    /\ typeSupport = {MimePreference[i] : i \in 1..3}
    /\ timers = 0
    /\ sess = [s \in Sessions |->
                 IF s = 1
                 THEN [phase |-> "granted", stream |-> "ended", enc |-> "inactive",
                       ended |-> "stop", stopEv |-> FALSE, sent |-> chunksRef]
                 ELSE NewSession]
    /\ delivered = 1
    /\ showSettings = FALSE
    /\ isProcessing = FALSE
    /\ isGeneratingAudio = FALSE
    /\ responseText \in SampleReplies
    /\ audioResponse = Some(PlayableResource(1, 0))
    /\ error = None
    /\ groqApiKey = TRUE
    /\ elevenLabsApiKey = TRUE
    /\ run = [pc |-> "ended", blob |-> audioBlob, decoded |-> "ok",
              calls |-> <<[ep |-> "stt", arg |-> audioBlob[1],
                           payload |-> ConvertBlobToWavResult(audioBlob[1], TRUE)],
                          [ep |-> "chat", arg |-> <<"a">>, payload |-> <<"a">>],
                          [ep |-> "tts", arg |-> responseText,
                           payload |-> TtsRequestText(responseText)]>>,
              sttText |-> Some(<<"a">>), ttsSize |-> Some(1), reset |-> FALSE,
              buffer |-> None, wav |-> None, ttsAfter |-> {}]
    /\ regen = [r \in Regens |-> NewRegen]
    /\ failure = None

\* The reply edited and resynthesized, from a reply around the limit.
ResynthesisSpec == ReplyShownInit /\ [][ResynthesisNext]_vars

\* PipelineInit describes states of the application: under RecorderSpec this
\* is not an invariant, for either artifact.
PipelineInitNotReached == ~PipelineInit
PipelineInitEmptyNotReached == ~(PipelineInit /\ chunksRef = <<>>)

\* ================================================================== claims

\* ---- the recorder's session state, as the component can observe it
SessionState ==
    IF isRecording THEN (IF isPaused THEN "paused" ELSE "recording")
    ELSE IF audioBlob # None \/ (\E s \in Sessions : sess[s].stopEv) THEN "stopped"
    ELSE "idle"

\* C1: once stop() was called on the active session and that encoder's stop
\* event has been handled, no capture stream is acquired and unreleased.
\* (A step that handles the stop event of a session ended by stop() leaves
\* zero live streams.)
C1_StopReleasesDevice ==
    [][\A s \in Sessions :
          (sess[s].ended = "stop" /\ sess[s].stopEv /\ ~sess'[s].stopEv)
             => Acquired' = 0]_vars

\* C2: in every reachable state at most one capture stream is acquired and
\* not yet released.
C2_AtMostOneStream == Acquired <= 1

\* C3: the session state changes only along idle->recording,
\* recording->paused, paused->recording, recording->stopped, paused->stopped
\* and stopped->idle.
AllowedEdges ==
    {<<"idle", "recording">>, <<"recording", "paused">>, <<"paused", "recording">>,
     <<"recording", "stopped">>, <<"paused", "stopped">>, <<"stopped", "idle">>}

C3_OnlyLifecycleEdges ==
    [][SessionState' # SessionState
          => <<SessionState, SessionState'>> \in AllowedEdges]_vars

\* C4: elapsed time never changes while the session is paused, and pause(),
\* resume(), stop() and a chunk arrival leave it unchanged; any change while
\* the session stays recording is a tick's +1.
C4_ElapsedTime ==
    [][/\ (SessionState = "paused" /\ SessionState' = "paused")
             => recordingTime' = recordingTime
       /\ (isPaused' # isPaused \/ (isRecording /\ ~isRecording') \/ delivered' # delivered)
             => recordingTime' = recordingTime]_vars

\* ---- remote calls of the invocation in flight
CallsTo(ep) == {i \in DOMAIN run.calls : run.calls[i].ep = ep}

\* Text with a character that is not whitespace.
NonBlank(t) == \E i \in DOMAIN t : t[i] # " "

\* C5: a chat-completion call was issued only after the transcription call
\* returned text that is non-blank after trimming, and carries that text; a
\* synthesis call was issued only with non-blank reply text; with a blank
\* transcription result the invocation issued no chat-completion call.
C5_StagesNeedText ==
    /\ \A i \in CallsTo("chat") :
          /\ run.sttText # None
          /\ NonBlank(run.sttText[1])
          /\ run.calls[i].payload = run.sttText[1]
    /\ \A i \in CallsTo("tts") : NonBlank(run.calls[i].arg)
    /\ (run.sttText # None /\ ~NonBlank(run.sttText[1]))
          => (CallsTo("chat") = {} /\ CallsTo("tts") = {} /\ run.pc = "ended")

\* A whitespace-only transcription result ended the invocation after the
\* transcription call alone.
C5_Witness ==
    /\ run.pc = "ended"
    /\ run.sttText = Some(<<" ">>)
    /\ Len(run.calls) = 1
    /\ run.calls[1].ep = "stt"

\* C6: when the transcription call returned blank text, the error the
\* component holds is the 'no speech detected' one.
C6_EmptySpeechSurfaced ==
    (failure # None /\ failure[1].cond = "EmptySpeech") => error = Some(MsgNoSpeech)

\* C7: when the chat-completion call returned no choices, the error the
\* component holds is the 'no response generated' one, and the invocation
\* issued no synthesis call.
C7_MissingChoicesSurfaced ==
    (failure # None /\ failure[1].cond = "MissingChoices")
       => (error = Some(MsgNoChoices) /\ CallsTo("tts") = {})

\* ---- the taxonomy, and what the application shows for a condition
CaptureTaxonomy == {"PermissionDenied", "DeviceNotFound", "Unsupported"}
ApiTaxonomy ==
    {"InvalidCredentials", "RateLimited", "BadRequest", "UnprocessableInput", "Timeout",
     "EmptySpeech", "MissingChoices", "EmptyAudio", "GenericFailure"}

SurfacedFor(c) ==
    {HandleStartRecordingCatch(StartErrorMessage(n)) :
        n \in {m \in CaptureErrorNames : CaptureCondition(m) = c}}
    \cup (IF c = "Unsupported" THEN {HandleStartRecordingCatch(MsgUnsupportedBrowser)} ELSE {})
    \cup {HandleProcessAudioCatch(TranscribeAndProcessCatch(AxiosError(f))) :
            f \in {g \in HttpFailures :
                     \E st \in {"stt", "chat"} : ApiCondition(st, g) = c}}
    \cup {HandleProcessAudioCatch(ConvertTextToSpeechCatch(AxiosError(f))) :
            f \in {g \in HttpFailures : ApiCondition("tts", g) = c}}
    \cup (IF c = "EmptySpeech"
          THEN {HandleProcessAudioCatch(TranscribeAndProcessCatch(PlainError(MsgNoSpeech)))}
          ELSE {})
    \cup (IF c = "MissingChoices"
          THEN {HandleProcessAudioCatch(TranscribeAndProcessCatch(PlainError(MsgNoChoices)))}
          ELSE {})
    \cup (IF c = "EmptyAudio"
          THEN {HandleProcessAudioCatch(ConvertTextToSpeechCatch(PlainError(MsgEmptyAudio)))}
          ELSE {})

\* C8: the error shown for a condition of the taxonomy is shown for no other
\* condition of the taxonomy.
C8_DistinctConditions ==
    (failure # None /\ error # None
        /\ failure[1].cond \in CaptureTaxonomy \cup ApiTaxonomy)
       => \A c \in (CaptureTaxonomy \cup ApiTaxonomy) \ {failure[1].cond} :
             error[1] \notin SurfacedFor(c)

\* C9: after a failure of a remote stage, on the Process Audio path or on
\* the Regenerate Audio path, the component's error is that failure's
\* message.
C9_FailureSetsError ==
    (failure # None /\ failure[1].path \in {"pipeline", "regen"}
        /\ failure[1].cond \in ApiTaxonomy)
       => error = Some(failure[1].msg)

RunSucceeds ==
    /\ run.pc = "tts"
    /\ run'.pc = "ended"
    /\ run'.ttsSize # None
    /\ run'.ttsSize[1] > 0

RegenSent(r) == regen[r].state = "unused" /\ regen'[r].state = "inflight"

\* C12: the text a synthesis request carries is the prefix of the text to
\* synthesize, of length min(length, 2500): exactly 2500 for a longer text.
C12_TransmittedPrefix ==
    [][\A r \in Regens :
          RegenSent(r) =>
             LET input == responseText
                 sent == regen'[r].text
             IN /\ Len(sent) = (IF Len(input) < 2500 THEN Len(input) ELSE 2500)
                /\ \A i \in 1..Len(sent) : sent[i] = input[i]
                /\ Len(input) > 2500 => Len(sent) = 2500]_vars

\* A request in flight for a reply of more than 2500 characters.
C12_Witness ==
    \E r \in Regens :
       /\ regen[r].state = "inflight"
       /\ Len(responseText) > 2500
       /\ Len(regen[r].text) = 2500

\* ---- the remote calls of the invocation, and the one awaited
StageOrder == <<"stt", "chat", "tts">>
CallsInFlight == {i \in DOMAIN run.calls : i = Len(run.calls) /\ run.pc = run.calls[i].ep}

\* C13: the calls of an invocation were issued in the order transcription,
\* chat completion, synthesis; at most one is in flight, the one issued
\* last; and a call was issued only once the one before it had returned
\* successfully (its result is held and it is no longer awaited).
C13_StrictlySequential ==
    /\ Len(run.calls) <= 3
    /\ \A i \in DOMAIN run.calls : run.calls[i].ep = StageOrder[i]
    /\ Cardinality(CallsInFlight) <= 1
    /\ run.pc \in {"stt", "chat", "tts"} => CallsInFlight = {Len(run.calls)}
    /\ Len(run.calls) >= 2 => (run.sttText # None /\ run.calls[2].arg = run.sttText[1])
    /\ (run.pc = "tts" /\ ~run.reset) => responseText = run.calls[3].arg

\* The synthesis call is in flight after the two others returned.
C13_Witness ==
    /\ run.pc = "tts"
    /\ Len(run.calls) = 3
    /\ CallsInFlight = {3}

\* ---- the invocation failed at a remote call
RunFailedAtCall ==
    /\ run.pc = "ended"
    /\ failure # None
    /\ failure[1].path = "pipeline"
    /\ failure[1].cond \in ApiTaxonomy

\* C14: an invocation calls each endpoint at most once; once a call failed
\* the error is set (to the timeout message of the stage for a deadline
\* overrun), no call is in flight, and no further call is issued until the
\* user clicks Process Audio again.
C14_NoRetry ==
    [][/\ \A ep \in {"stt", "chat", "tts"} : Cardinality(CallsTo(ep))' <= 1
       /\ RunFailedAtCall' =>
             /\ error' # None
             /\ CallsInFlight' = {}
             /\ failure'[1].cond = "Timeout" =>
                   error' = Some(IF Len(run'.calls) = 3 THEN MsgElevenTimeout
                                 ELSE MsgGroqTimeout)
       /\ run.pc = "ended" =>
             \/ run'.calls = run.calls /\ run'.pc = "ended"
             \/ run'.pc = "read" /\ run'.calls = <<>> /\ isProcessing']_vars

\* The transcription call timed out and the invocation ended there.
C14_Witness ==
    /\ RunFailedAtCall
    /\ failure[1].cond = "Timeout"
    /\ Len(run.calls) = 1
    /\ error = Some(MsgGroqTimeout)

\* ---- the step at which an invocation fails: an error reaches
\* handleProcessAudio's catch, or the read of the artifact fails
RunFailsNow ==
    /\ run'.pc # run.pc
    /\ \/ run'.pc = "stalled"
       \/ run'.pc = "ended" /\ failure' # None /\ failure'[1].path = "pipeline"

\* C15: when an invocation fails, at whichever stage, isProcessing and
\* isGeneratingAudio are both false afterwards and the artifact is still
\* the one held before, so that Process Audio can be clicked again.
C15_RetryAfterFailure ==
    [][RunFailsNow =>
          /\ ~isProcessing'
          /\ ~isGeneratingAudio'
          /\ audioBlob' = audioBlob]_vars

\* ---- a Regenerate Audio click, and the completion of its request
RegenClicked(r) == regen[r].state = "unused" /\ regen'[r].state # "unused"
RegenCompletes(r) == regen[r].state = "inflight" /\ regen'[r].state = "done"

\* C16 as stated: every Regenerate Audio click issues exactly one synthesis
\* call, carrying the current reply text.
C16_EveryClickOneCall ==
    [][\A r \in Regens :
          RegenClicked(r) => (RegenSent(r) /\ regen'[r].text = responseText)]_vars

\* C16: a Regenerate Audio click on a reply text that is not blank issues
\* exactly one synthesis call, carrying the first 2500 characters of the
\* current reply text, and a click on a blank text issues none; neither
\* touches the invocation's transcription and chat-completion calls; a
\* request that completes either installs its result as the held resource
\* or, rejected, leaves the held resource as it was.
C16_ResynthesisAlone ==
    [][\A r \in Regens :
          /\ RegenClicked(r) =>
                /\ Cardinality({q \in Regens : RegenClicked(q)}) = 1
                /\ run' = run
                /\ IF NonBlank(responseText)
                   THEN /\ RegenSent(r)
                        /\ regen'[r].text =
                              SubSeq(responseText, 1,
                                     IF Len(responseText) < 2500 THEN Len(responseText)
                                     ELSE 2500)
                   ELSE ~RegenSent(r)
          /\ RegenCompletes(r) =>
                /\ run' = run
                /\ \/ /\ audioResponse' # None
                      /\ audioResponse'[1].by = r
                      /\ audioResponse'[1].bytes > 0
                   \/ /\ audioResponse' = audioResponse
                      /\ failure' # None
                      /\ failure'[1].path = "regen"]_vars

\* The reply was edited and a request carrying the edited text, not the
\* reply the pipeline synthesized, is in flight.
C16_Witness ==
    /\ responseText = <<"a">>
    /\ run.calls[3].arg # responseText
    /\ \E r \in Regens : regen[r].state = "inflight" /\ regen[r].text = responseText

\* ---- no encoder is recording / no interval timer is scheduled
NoEncoderRecording == \A s \in Sessions : sess[s].enc # "recording"

\* C17: pause() outside recording and resume() outside paused change
\* nothing; pause() from recording leaves no tick scheduled and no encoder
\* recording; resume() from paused leaves exactly one tick scheduled and the
\* encoder recording.
C17_PauseResume ==
    [][/\ PauseRecording =>
             IF SessionState = "recording"
             THEN /\ isPaused'
                  /\ timers' = 0
                  /\ NoEncoderRecording'
                  /\ UNCHANGED <<isRecording, recordingTime, audioBlob, chunksRef, streamRef>>
             ELSE UNCHANGED vars
       /\ ResumeRecording =>
             IF SessionState = "paused"
             THEN /\ ~isPaused'
                  /\ timers' = 1
                  /\ sess'[mediaRecorderRef].enc = "recording"
                  /\ UNCHANGED <<isRecording, recordingTime, audioBlob, chunksRef, streamRef>>
             ELSE UNCHANGED vars]_vars

\* C18: a clear(), by Clear or by Start New Conversation, is invoked only
\* while no capture stream is acquired, and leaves the artifact absent, the
\* elapsed time 0 and no capture stream acquired.
C18_ClearOnlyWhenReleased ==
    [][(ClearRecording \/ HandleReset) =>
          /\ Acquired = 0
          /\ audioBlob' = None
          /\ recordingTime' = 0
          /\ Acquired' = 0]_vars

\* C19: while an artifact is held, no session is recording or paused: the
\* flags say so and no encoder is active.
C19_ArtifactOnlyWhenStopped ==
    audioBlob # None =>
       /\ ~isRecording
       /\ \A s \in Sessions : sess[s].enc \notin {"recording", "paused"}

\* ---- the step at which the start() call s fails: at the capability check,
\* at the device-access request, or opening the encoder on the stream
StartFails(s) ==
    /\ sess[s].phase \in {"unused", "awaiting"}
    /\ \/ sess'[s].phase = "rejected"
       \/ sess'[s].phase = "granted" /\ sess'[s].enc = "none"
    /\ failure' # None
    /\ failure'[1].path = "start"
    /\ failure'[1].cond \in CaptureTaxonomy

\* C20: when a start() fails with PermissionDenied, DeviceNotFound or
\* Unsupported, the recorder is idle afterwards: not recording, not paused,
\* no tick scheduled, no capture stream acquired.
C20_FailedStartLeavesIdle ==
    [][(\E s \in Sessions : StartFails(s)) =>
          /\ ~isRecording'
          /\ ~isPaused'
          /\ timers' = 0
          /\ Acquired' = 0]_vars

\* ---- the condition a surfaced message stands for
ConditionShown(m) ==
    CASE m \in {MsgInvalidGroqKey, MsgInvalidElevenKey} -> "InvalidCredentials"
      [] m \in {MsgGroqRateLimit, MsgElevenRateLimit} -> "RateLimited"
      [] Len(m) = 2 /\ m[1] = "Groq API Error: " -> "BadRequest"
      [] m = MsgInvalidTtsInput -> "UnprocessableInput"
      [] m \in {MsgGroqTimeout, MsgElevenTimeout} -> "Timeout"
      [] m \in {MsgGroqGeneric, MsgElevenGeneric} -> "GenericFailure"
      [] OTHER -> "Other"

CallConditions ==
    {"InvalidCredentials", "RateLimited", "BadRequest", "UnprocessableInput", "Timeout",
     "GenericFailure"}

\* C21: after a failed remote call of an invocation the error shown stands
\* for the condition the response determines (401, 429, 400 in stages 1 and
\* 2, 422 in stage 3, deadline overrun, anything else); and for a 400
\* response of the transcription or chat service the message carries the
\* service's own message.
C21_ConditionOfResponse ==
    /\ (RunFailedAtCall /\ failure[1].cond \in CallConditions) =>
          /\ error # None
          /\ ConditionShown(error[1]) = failure[1].cond
    /\ \A f \in HttpFailures :
          (f.status = 400 /\ f.detail # None) =>
             TranscribeAndProcessCatch(AxiosError(f)) = <<"Groq API Error: ", f.detail[1]>>

\* The synthesis call was answered with 422 and the invalid-input message
\* is shown.
C21_Witness ==
    /\ RunFailedAtCall
    /\ failure[1].cond = "UnprocessableInput"
    /\ Len(run.calls) = 3
    /\ error = Some(MsgInvalidTtsInput)

\* ---- the type the preference list gives for the supported encodings
PreferenceList == <<"audio/webm;codecs=opus", "audio/webm", "audio/mp4">>
FirstSupported(supported) ==
    LET hits == {i \in 1..3 : PreferenceList[i] \in supported}
    IN IF hits = {} THEN "default"
       ELSE PreferenceList[CHOOSE i \in hits : \A j \in hits : i <= j]

\* C22: for every set of supported encodings the negotiation selects the
\* first supported entry of the list, and the platform default ("") when
\* none is supported; an artifact is tagged with the entry selected for the
\* platform's set, with audio/webm under the platform default.
C22_MediaTypeNegotiation ==
    /\ \A supported \in SUBSET {PreferenceList[i] : i \in 1..3} :
          NegotiateMimeType(supported) =
             (IF FirstSupported(supported) = "default" THEN ""
              ELSE FirstSupported(supported))
    /\ audioBlob # None =>
          audioBlob[1].type =
             (IF FirstSupported(typeSupport) = "default" THEN "audio/webm"
              ELSE FirstSupported(typeSupport))

\* An artifact recorded where only the last entry of the list is supported.
C22_Witness ==
    /\ typeSupport = {"audio/mp4"}
    /\ audioBlob # None
    /\ audioBlob[1].type = "audio/mp4"
    /\ BlobSize(audioBlob[1]) > 0

\* C23: the container built from a decoded buffer of L samples at rate R
\* declares 1 channel, 16 bits per sample, rate R, byte rate 2*R, block
\* align 2, a data size of 2*L and a total size of 44 + 2*L bytes, for
\* every channel count of the buffer, and holds one channel of L samples.
C23_WavHeader ==
    (run.buffer # None /\ run.wav # None) =>
       LET L == run.buffer[1].length
           R == run.buffer[1].sampleRate
           w == run.wav[1]
       IN /\ w.numChannels = 1
          /\ w.bitsPerSample = 16
          /\ w.sampleRate = R
          /\ w.byteRate = 2 * R
          /\ w.blockAlign = 2
          /\ w.dataSize = 2 * L
          /\ w.byteLength = 44 + 2 * L
          /\ w.riffSize + 8 = w.byteLength
          /\ w.samples = L
          /\ Cardinality(w.fromChannels) = 1

\* The same with the channel count left out: every other field is as stated.
C23_AllButChannelCount ==
    (run.buffer # None /\ run.wav # None) =>
       LET L == run.buffer[1].length
           R == run.buffer[1].sampleRate
           w == run.wav[1]
       IN /\ w.bitsPerSample = 16
          /\ w.sampleRate = R
          /\ w.byteRate = 2 * R
          /\ w.blockAlign = 2
          /\ w.dataSize = 2 * L
          /\ w.byteLength = 44 + 2 * L
          /\ w.samples = L
          /\ (run.buffer[1].numberOfChannels = 1 => w.numChannels = 1)

\* ---- session s's stop event is handled in this step: its artifact is finalized
Finalizes(s) == sess[s].stopEv /\ ~sess'[s].stopEv

\* C24: the artifact finalized for a session is the sequence, in arrival
\* order, of exactly the non-empty chunks that session's encoder delivered:
\* none missing, none of another session; and no chunk of the session
\* arrives once its artifact is finalized.
C24_ArtifactIsSessionsChunks ==
    [][\A s \in Sessions :
          /\ Finalizes(s) =>
                /\ audioBlob' # None
                /\ audioBlob'[1].chunks = sess'[s].sent
          /\ (sess[s].ended # "no" /\ ~sess[s].stopEv) => sess'[s].sent = sess[s].sent]_vars

\* C25: exactly one elapsed-time interval is scheduled while the recorder is
\* recording and not paused, and none otherwise.
C25_OneTimerWhileRecording ==
    timers = (IF isRecording /\ ~isPaused THEN 1 ELSE 0)

\* ---- convertBlobToWav was called and its promise is not settled
ConversionPending == run.pc \in {"read", "decode", "stalled"}

\* C26: every format adaptation that was started completes, and every
\* invocation of the pipeline ends with isProcessing false again.
C26_InvocationEnds ==
    /\ ConversionPending ~> ~ConversionPending
    /\ isProcessing ~> ~isProcessing

\* ---- synthesis requests: 0 is the synthesis call of the invocation, r > 0
\* the r-th Regenerate Audio request.  IssuedAfter(p, q): p was issued after q.
IssuedAfter(p, q) ==
    IF p = 0 THEN q \in run.ttsAfter
    ELSE IF q = 0 THEN p \notin run.ttsAfter
    ELSE p > q
SynthesisInFlight == run.pc = "tts" \/ \E r \in Regens : regen[r].state = "inflight"

\* C27: once every synthesis request has completed, the playable resource
\* the UI holds is the result of the most recently issued one: the response
\* that completes the last request in flight never replaces the result of a
\* request issued after its own.
C27_LatestRequestWins ==
    [][(/\ SynthesisInFlight /\ ~SynthesisInFlight'
        /\ audioResponse # None /\ audioResponse' # None
        /\ audioResponse'[1].by # audioResponse[1].by)
          => IssuedAfter(audioResponse'[1].by, audioResponse[1].by)]_vars

\* C28: after Start New Conversation the reply text and the synthesized
\* audio stay empty until Process Audio is clicked again: no step of an
\* invocation or of a synthesis request that was in flight installs a result.
C28_EmptyAfterReset ==
    [][(run.reset /\ run'.reset) =>
          /\ responseText' = <<>>
          /\ audioResponse' = None]_vars

====
